---- MODULE Spec2Model ----
(***************************************************************************)
(* A model of the Facebook Messenger / Gemini webhook relay (src/file.js). *)
(*                                                                         *)
(* One behaviour is the life of one HTTP request against the express app:  *)
(* the request is received and parsed by the body parser, routed to        *)
(* GET /webhook or POST /webhook, and, for a verified POST, its entries    *)
(* and messaging events are iterated and dispatched one at a time.  The    *)
(* two external services (the generative API and the Graph API) are the    *)
(* environment: their outcomes are chosen nondeterministically.            *)
(***************************************************************************)
EXTENDS Integers, Sequences, FiniteSets, TLC

VARIABLES
    FACEBOOK_VERIFY_TOKEN,  \* process.env.FACEBOOK_VERIFY_TOKEN, fixed at start-up
    req,                    \* the request being served
    pc,                     \* where the request's handling stands
    res,                    \* the response sent ([status |-> 0] while none is)
    entryIdx,               \* position of the outer for..of over body.entry
    eventIdx,               \* position of the inner for..of over entry.messaging
    senderId,               \* processMessage's senderId for the event in hand
    messageText,            \* the text about to be handed to sendMessageToFacebook
    processed,              \* history: the events passed to processMessage, in order
    calls,                  \* history: the outbound calls made, in order
    verified,               \* what verifyRequestSignature did for this request
    error,                  \* the error the handler's promise rejected with
    processAlive            \* FALSE once an unhandled rejection has ended the process

vars == <<FACEBOOK_VERIFY_TOKEN, req, pc, res, entryIdx, eventIdx, senderId,
          messageText, processed, calls, verified, error, processAlive>>

(***************************************************************************)
(* Bounds of the model.                                                    *)
(***************************************************************************)
MaxEntries == 2     \* entries in one payload
MaxEvents == 2      \* messaging events in one payload, over all its entries

(***************************************************************************)
(* JavaScript values.                                                      *)
(***************************************************************************)
UNDEF == "<undefined>"              \* the value undefined (an absent property)
FUNCTION == "<function>"            \* a function object (truthy, not a string)

Truthy(v) == v \notin {UNDEF, ""}

FACEBOOK_APP_SECRET == "app-secret"
PageId == "page-1"

(***************************************************************************)
(* Messaging events.  sender/recipient hold the id, or UNDEF when the      *)
(* sender/recipient object is absent from the event.                       *)
(***************************************************************************)
Message(sender, recipient, text, quickReply) ==
    [sender |-> sender, recipient |-> recipient,
     hasMessage |-> TRUE, text |-> text, quick_reply |-> quickReply,
     hasPostback |-> FALSE, payload |-> UNDEF]

Postback(sender, payload) ==
    [sender |-> sender, recipient |-> PageId,
     hasMessage |-> FALSE, text |-> UNDEF, quick_reply |-> UNDEF,
     hasPostback |-> TRUE, payload |-> payload]

Receipt(sender) ==
    [sender |-> sender, recipient |-> PageId,
     hasMessage |-> FALSE, text |-> UNDEF, quick_reply |-> UNDEF,
     hasPostback |-> FALSE, payload |-> UNDEF]

MessageWithPostback(sender, text, payload) ==
    [sender |-> sender, recipient |-> PageId,
     hasMessage |-> TRUE, text |-> text, quick_reply |-> UNDEF,
     hasPostback |-> TRUE, payload |-> payload]

\* The event shapes that are combined freely into payloads.
CoreEvents ==
    { Message("u1", PageId, "Hi", UNDEF),
      Message("u2", PageId, "Yo", "QR_YES"),
      Message("u1", PageId, UNDEF, UNDEF),
      Message(UNDEF, PageId, "Hi", UNDEF),
      Postback("u1", "GET_STARTED") }

\* The event shapes that are sent alone, one event in one entry.
EdgeEvents ==
    { Message("u1", UNDEF, "Hi", UNDEF),
      Message("u1", PageId, "", UNDEF),
      Message("u2", PageId, UNDEF, "QR_NO"),
      Postback("u2", "MENU_INFO"),
      Postback("u2", "MENU_SUPPORT"),
      Postback("u2", "BUY_NOW"),
      Postback("u2", "constructor"),
      Postback("u2", "toString"),
      Postback("u2", UNDEF),
      MessageWithPostback("u2", UNDEF, "GET_STARTED"),
      Receipt("u1") }

(***************************************************************************)
(* Parsed JSON bodies.  entry / messaging are arrays, or absent.           *)
(***************************************************************************)
Entry(events) == [hasMessaging |-> TRUE, messaging |-> events]
NoMessagingEntry == [hasMessaging |-> FALSE, messaging |-> <<>>]

EventSeqs(S, n) == [1..n -> S]

\* Every list of at most e entries holding at most m events of S in all.
RECURSIVE EntryLists(_, _, _)
EntryLists(S, e, m) ==
    IF e = 0 THEN {<<>>}
    ELSE {<<>>}
         \cup { <<NoMessagingEntry>> \o rest : rest \in EntryLists(S, e - 1, m) }
         \cup UNION { { <<Entry(evs)>> \o rest :
                          evs \in EventSeqs(S, k),
                          rest \in EntryLists(S, e - 1, m - k) } : k \in 0..m }

Body(object, entries) == [object |-> object, hasEntry |-> TRUE, entry |-> entries]
NoEntryBody(object) == [object |-> object, hasEntry |-> FALSE, entry |-> <<>>]

Bodies ==
    { Body("page", es) : es \in EntryLists(CoreEvents, MaxEntries, MaxEvents) }
    \cup { Body("page", <<Entry(<<ev>>)>>) : ev \in EdgeEvents }
    \cup { NoEntryBody("page"), NoEntryBody("user"),
           Body("user", <<Entry(<<Message("u1", PageId, "Hi", UNDEF)>>)>>) }

(***************************************************************************)
(* Raw request bodies: a JSON text is the value it denotes together with   *)
(* its formatting.  JSON.parse forgets the formatting; JSON.stringify      *)
(* always produces the compact one.                                        *)
(***************************************************************************)
Formats == {"compact", "spaced"}
RawBodies == [json : Bodies, fmt : Formats]

JSONparse(raw) == raw.json
JSONstringify(value) == [json |-> value, fmt |-> "compact"]

(***************************************************************************)
(* HMAC-SHA256 as an ideal keyed hash: the digest determines key and data. *)
(* A header value is a string: its length and its content.                 *)
(***************************************************************************)
Hmac(key, data) == [key |-> key, data |-> data]

Sha256HexLen == 64      \* digest('hex') of a SHA-256 digest
Str(prefix, prefixLen, digest, hexLen) ==
    [present |-> TRUE, len |-> prefixLen + hexLen, prefix |-> prefix, digest |-> digest]

Sha256Header(key, data) == Str("sha256=", 7, Hmac(key, data), Sha256HexLen)
\* The legacy x-hub-signature format: a well-formed header of another length.
Sha1Header(key, data) == Str("sha1=", 5, Hmac(key, data), 40)
EmptyHeader(data) ==
    [present |-> TRUE, len |-> 0, prefix |-> "", digest |-> Hmac("", data)]
NoHeader(data) ==
    [present |-> FALSE, len |-> 0, prefix |-> "", digest |-> Hmac("", data)]

\* What a client may put in x-hub-signature-256 for a given raw body.
HeadersFor(raw) ==
    { NoHeader(raw), EmptyHeader(raw),
      Sha256Header(FACEBOOK_APP_SECRET, raw),
      Sha256Header(FACEBOOK_APP_SECRET, JSONstringify(JSONparse(raw))),
      Sha256Header("wrong-secret", raw),
      Sha1Header(FACEBOOK_APP_SECRET, raw) }

(***************************************************************************)
(* Requests.                                                               *)
(***************************************************************************)
EmptyRaw == [json |-> NoEntryBody(UNDEF), fmt |-> "compact"]

VerifyTokens == {UNDEF, "my-verify-token", "guess"}
Challenges == {"1158201444", "challenge-b"}

Request(method, token, challenge, header, raw) ==
    [method |-> method, verify_token |-> token, challenge |-> challenge,
     signature |-> header, raw |-> raw]

NoRequest ==
    [method |-> "NONE", verify_token |-> UNDEF, challenge |-> UNDEF,
     signature |-> NoHeader(EmptyRaw), raw |-> EmptyRaw,
     body |-> EmptyRaw.json, hasRawBody |-> FALSE]

(***************************************************************************)
(* The middleware stack, in registration order.  A layer runs only if no   *)
(* earlier layer has answered the request; body-parser skips a request     *)
(* whose body an earlier parser has already parsed.                        *)
(***************************************************************************)
AppStack ==
    << "json", "urlencoded", "GET /webhook", "POST /webhook", "GET /health",
       "notFound", "errorHandler", "jsonRawBody" >>

IndexOf(layer) == CHOOSE k \in 1..Len(AppStack) : AppStack[k] = layer

\* Whether req.rawBody is set when the handler of `route` runs.
RawBodyCaptured(route) ==
    /\ IndexOf("jsonRawBody") < IndexOf(route)
    /\ IndexOf("jsonRawBody") < IndexOf("json")

(***************************************************************************)
(* Responses.                                                              *)
(***************************************************************************)
NoResponse == [status |-> 0, body |-> ""]
Response(status, body) == [status |-> status, body |-> body]

(***************************************************************************)
(* verifyRequestSignature                                                  *)
(***************************************************************************)
\* crypto.timingSafeEqual throws a RangeError on buffers of different length.
TimingSafeEqual(a, b) ==
    IF a.len # b.len THEN "throw"
    ELSE IF a = b THEN "true" ELSE "false"

SignedBody(r) == IF r.hasRawBody THEN r.raw ELSE JSONstringify(r.body)

ExpectedSignature(r) == Sha256Header(FACEBOOK_APP_SECRET, SignedBody(r))

verifyRequestSignature(r) ==
    IF ~r.signature.present \/ r.signature.len = 0
    THEN "false"
    ELSE TimingSafeEqual(r.signature, ExpectedSignature(r))

(***************************************************************************)
(* processMessage's dispatch, generateResponseWithGemini, handlePostback   *)
(***************************************************************************)
\* Reading event.sender.id / event.recipient.id throws when the object is absent.
ReadsIds(event) == event.sender # UNDEF /\ event.recipient # UNDEF

\* The dispatch without the test of userMessage.
DispatchAnyMessage(event) ==
    IF event.hasMessage THEN "generate"
    ELSE IF event.hasPostback THEN "postback"
    ELSE "nothing"

Dispatch(event) ==
    IF event.hasMessage
    THEN (IF Truthy(event.text) THEN "generate" ELSE "nothing")
    ELSE IF event.hasPostback THEN "postback"
    ELSE IF event.hasMessage /\ Truthy(event.quick_reply) THEN "quick_reply"
    ELSE "nothing"

Apology ==
    "Thank you for your message. I'm having technical difficulties. Please try again later."

\* A model reply is its text between leading and trailing white space.
ModelReplies ==
    { [lead |-> "", core |-> "Hello!", trail |-> ""],
      [lead |-> "  ", core |-> "Hello!", trail |-> "\n"] }

Trim(reply) == reply.core

GeminiOutcomes ==
    { [ok |-> TRUE, failsAt |-> "", reply |-> t] : t \in ModelReplies }
    \cup { [ok |-> FALSE, failsAt |-> f, reply |-> [lead |-> "", core |-> "", trail |-> ""]] :
             f \in {"getGenerativeModel", "generateContent", "response", "text"} }

\* The catch block returning nothing.
generateResponseNoFallback(outcome) ==
    IF outcome.ok THEN Trim(outcome.reply) ELSE UNDEF

generateResponseWithGemini(outcome) ==
    IF outcome.ok THEN Trim(outcome.reply) ELSE Apology

\* (wave) stands for the emoji U+1F44B of the source string.
responses ==
    [ GET_STARTED |-> "Welcome! (wave) How can I help you today?",
      MENU_INFO |-> "Here's our business information...",
      MENU_SUPPORT |-> "Select an issue: 1) Billing 2) Technical 3) General" ]

Fallback == "I didn't understand that action."

\* The properties an object literal inherits from Object.prototype.
ObjectPrototypeKeys ==
    { "constructor", "toString", "toLocaleString", "valueOf", "hasOwnProperty",
      "isPrototypeOf", "propertyIsEnumerable", "__proto__" }

\* responses[payload]: the key is the payload converted to a string.
PropertyLookup(payload) ==
    LET key == IF payload = UNDEF THEN "undefined" ELSE payload
    IN  IF key \in DOMAIN responses THEN responses[key]
        ELSE IF key \in ObjectPrototypeKeys THEN FUNCTION
        ELSE UNDEF

\* The text handlePostback hands to sendMessageToFacebook.
handlePostback(payload) ==
    LET v == PropertyLookup(payload)
    IN  IF Truthy(v) THEN v ELSE Fallback

(***************************************************************************)
(* The state after construction: the server listens, nothing is in hand.   *)
(***************************************************************************)
Init ==
    /\ FACEBOOK_VERIFY_TOKEN \in {UNDEF, "my-verify-token"}
    /\ req = NoRequest
    /\ pc = "listening"
    /\ res = NoResponse
    /\ entryIdx = 0
    /\ eventIdx = 0
    /\ senderId = UNDEF
    /\ messageText = UNDEF
    /\ processed = <<>>
    /\ calls = <<>>
    /\ verified = "pending"
    /\ error = UNDEF
    /\ processAlive = TRUE

Route(r) == IF r.method = "GET" THEN "GET /webhook" ELSE "POST /webhook"

\* A request arrives and passes the layers registered before its route:
\* express.json() parses the body into req.body.
Parsed(r) ==
    [method |-> r.method, verify_token |-> r.verify_token,
     challenge |-> r.challenge, signature |-> r.signature,
     raw |-> r.raw, body |-> JSONparse(r.raw),
     hasRawBody |-> RawBodyCaptured(Route(r))]

Receive ==
    /\ pc = "listening"
    /\ \/ \E t \in VerifyTokens, c \in Challenges :
            req' = Parsed(Request("GET", t, c, NoHeader(EmptyRaw), EmptyRaw))
       \/ \E raw \in RawBodies : \E h \in HeadersFor(raw) :
            req' = Parsed(Request("POST", UNDEF, UNDEF, h, raw))
    /\ pc' = "routed"
    /\ UNCHANGED <<FACEBOOK_VERIFY_TOKEN, res, entryIdx, eventIdx, senderId,
                   messageText, processed, calls, verified, error,
                   processAlive>>

\* app.get('/webhook')
VerifyTokenMatches(r) == r.verify_token = FACEBOOK_VERIFY_TOKEN

GetWebhook ==
    /\ pc = "routed"
    /\ req.method = "GET"
    /\ res' = IF VerifyTokenMatches(req)
              THEN Response(200, req.challenge)
              ELSE Response(403, "Invalid verification token")
    /\ pc' = "answered"
    /\ UNCHANGED <<FACEBOOK_VERIFY_TOKEN, req, entryIdx, eventIdx, senderId,
                   messageText, processed, calls, verified, error,
                   processAlive>>

RangeError == "RangeError: Input buffers must have the same byte length"
NotIterable == "TypeError: undefined is not iterable"

\* app.post('/webhook'), up to the first await: the signature check and the
\* test of body.object.
PostWebhook ==
    /\ pc = "routed"
    /\ req.method = "POST"
    /\ LET v == verifyRequestSignature(req)
       IN  /\ res' = IF v = "false" THEN Response(403, "Unauthorized")
                     ELSE IF v = "true" /\ req.body.object # "page"
                          THEN Response(200, "OK")
                     ELSE res
           /\ pc' = IF v = "throw" THEN "rejected"
                    ELSE IF v = "false" THEN "answered"
                    ELSE IF req.body.object = "page" THEN "iterating"
                    ELSE "answered"
           /\ verified' = v
           /\ error' = IF v = "throw" THEN RangeError ELSE error
    /\ entryIdx' = 1
    /\ eventIdx' = 1
    /\ UNCHANGED <<FACEBOOK_VERIFY_TOKEN, req, senderId, messageText,
                   processed, calls, processAlive>>

\* The two for..of loops: take the next messaging event, or leave the loops.
\* Iterating a value that is undefined throws a TypeError outside the try.
Iterate ==
    /\ pc = "iterating"
    /\ IF ~req.body.hasEntry
       THEN pc' = "rejected" /\ error' = NotIterable
            /\ UNCHANGED <<entryIdx, eventIdx>>
       ELSE IF entryIdx > Len(req.body.entry)
       THEN pc' = "responding" /\ UNCHANGED <<entryIdx, eventIdx, error>>
       ELSE IF ~req.body.entry[entryIdx].hasMessaging
       THEN pc' = "rejected" /\ error' = NotIterable
            /\ UNCHANGED <<entryIdx, eventIdx>>
       ELSE IF eventIdx > Len(req.body.entry[entryIdx].messaging)
       THEN pc' = "iterating" /\ entryIdx' = entryIdx + 1 /\ eventIdx' = 1
            /\ UNCHANGED error
       ELSE pc' = "processing" /\ UNCHANGED <<entryIdx, eventIdx, error>>
    /\ UNCHANGED <<FACEBOOK_VERIFY_TOKEN, req, res, senderId, messageText,
                   processed, calls, verified, processAlive>>

CurrentEvent == req.body.entry[entryIdx].messaging[eventIdx]

\* Where the handler goes when processMessage throws: the catch of the
\* per-event try logs the error and the inner loop goes on.
\* Without the per-event try/catch the error rejects the handler.
AfterEventErrorEscapes == "rejected"

AfterEventError == "iterating"

\* processMessage, up to its first await.
processMessage ==
    /\ pc = "processing"
    /\ processed' = Append(processed, CurrentEvent)
    /\ IF ~ReadsIds(CurrentEvent)
       THEN /\ pc' = AfterEventError
            /\ eventIdx' = eventIdx + 1
            /\ UNCHANGED <<senderId, messageText>>
       ELSE /\ senderId' = CurrentEvent.sender
            /\ LET d == Dispatch(CurrentEvent)
               IN  /\ pc' = IF d = "generate" THEN "generating"
                            ELSE IF d = "postback" THEN "sending"
                            ELSE "iterating"
                   /\ messageText' = IF d = "postback"
                                     THEN handlePostback(CurrentEvent.payload)
                                     ELSE messageText
                   /\ eventIdx' = IF d \in {"generate", "postback"}
                                  THEN eventIdx ELSE eventIdx + 1
    /\ UNCHANGED <<FACEBOOK_VERIFY_TOKEN, req, res, entryIdx, calls, verified, error,
                   processAlive>>

\* A call made for the event in hand, the Len(processed)-th of the request.
Call(op, to, text, ok, result) ==
    [op |-> op, event |-> Len(processed), to |-> to, text |-> text,
     ok |-> ok, result |-> result]

\* await generateResponseWithGemini(userMessage): the call is made and ends,
\* with a reply or with a failure at one of the steps inside its try.
GenerateResponse ==
    /\ pc = "generating"
    /\ \E outcome \in GeminiOutcomes :
         /\ messageText' = generateResponseWithGemini(outcome)
         /\ calls' = Append(calls, Call("generate", UNDEF, CurrentEvent.text,
                                        outcome.ok, messageText'))
    /\ pc' = "sending"
    /\ UNCHANGED <<FACEBOOK_VERIFY_TOKEN, req, res, entryIdx, eventIdx, senderId,
                   processed, verified, error,
                   processAlive>>

\* await sendMessageToFacebook(senderId, text): one axios.post; whatever its
\* outcome (200, another status, a rejection) the function returns normally.
sendMessageToFacebook ==
    /\ pc = "sending"
    /\ calls' = Append(calls, Call("send", senderId, messageText, TRUE, UNDEF))
    /\ pc' = "iterating"
    /\ eventIdx' = eventIdx + 1
    /\ UNCHANGED <<FACEBOOK_VERIFY_TOKEN, req, res, entryIdx, senderId,
                   messageText, processed, verified, error,
                   processAlive>>

\* res.status(200).send('OK') after the loops.
SendOK ==
    /\ pc = "responding"
    /\ res' = Response(200, "OK")
    /\ pc' = "answered"
    /\ UNCHANGED <<FACEBOOK_VERIFY_TOKEN, req, entryIdx, eventIdx, senderId,
                   messageText, processed, calls, verified, error,
                   processAlive>>

\* The async handler's promise rejects.  express 4 ignores the promise a
\* handler returns: the request stays unanswered and the rejection is
\* unhandled, which ends the process unless node only warns.  express 5
\* passes the rejection to the error-handling middleware.  The package is
\* installed without a version.
ExpressMajors == {4, 5}

HandlerRejects ==
    /\ pc = "rejected"
    /\ \E major \in ExpressMajors, nodeOnlyWarns \in BOOLEAN :
         IF major = 5
         THEN /\ res' = Response(500, "{error: Internal server error}")
              /\ pc' = "answered"
              /\ UNCHANGED processAlive
         ELSE /\ pc' = "unanswered"
              /\ processAlive' = nodeOnlyWarns
              /\ UNCHANGED res
    /\ UNCHANGED <<FACEBOOK_VERIFY_TOKEN, req, entryIdx, eventIdx, senderId,
                   messageText, processed, calls, verified, error>>

Next ==
    \/ Receive
    \/ GetWebhook
    \/ PostWebhook
    \/ Iterate
    \/ processMessage
    \/ GenerateResponse
    \/ sendMessageToFacebook
    \/ SendOK
    \/ HandlerRejects

Spec == Init /\ [][Next]_vars

(***************************************************************************)
(* Vocabulary of the properties.                                           *)
(***************************************************************************)
\* The messaging events of a payload, in payload order.
RECURSIVE Flatten(_)
Flatten(entries) ==
    IF entries = <<>> THEN <<>>
    ELSE Head(entries).messaging \o Flatten(Tail(entries))

\* entry is an array and every entry's messaging is an array.
IterablePayload(body) ==
    /\ body.hasEntry
    /\ \A k \in 1..Len(body.entry) : body.entry[k].hasMessaging

VerifiedPage == verified = "true" /\ req.body.object = "page"

\* The calls made for the k-th event passed to processMessage.
CallsOf(k) == SelectSeq(calls, LAMBDA c : c.event = k)
SendsOf(k) == SelectSeq(calls, LAMBDA c : c.event = k /\ c.op = "send")

\* The handling of the k-th event passed to processMessage is over.
Handled(k) == k < Len(processed) \/ pc \notin {"generating", "sending"}

TextEvent(ev) == ReadsIds(ev) /\ ev.hasMessage /\ Truthy(ev.text)

\* The handler of a verified page request rejects for one reason only, an
\* entry or messaging that is not iterable, and never when both are arrays;
\* when it does not reject, what it answers is 200 'OK'.
ReportsSuccess ==
    VerifiedPage =>
        /\ (pc \in {"rejected", "unanswered"} \/ error # UNDEF) =>
              (error = NotIterable /\ ~IterablePayload(req.body))
        /\ (pc = "answered" /\ error = UNDEF) => res = Response(200, "OK")

(***************************************************************************)
(* C1  Every POST /webhook request whose x-hub-signature-256 header is     *)
(* absent, or present but different from 'sha256=' + HMAC-SHA256(app       *)
(* secret, body), is answered with status 403, whatever the length of the  *)
(* header value.  (A header counts as mismatching here only if it differs  *)
(* from the signature of the raw body and from that of the re-serialized   *)
(* body.)                                                                  *)
(***************************************************************************)
C1_BadSignatureAnswered403 ==
    ( /\ req.method = "POST"
      /\ pc \notin {"listening", "routed"}
      /\ \/ ~req.signature.present
         \/ /\ req.signature # Sha256Header(FACEBOOK_APP_SECRET, req.raw)
            /\ req.signature #
                 Sha256Header(FACEBOOK_APP_SECRET, JSONstringify(req.body)) )
    => (pc = "answered" /\ res.status = 403)

(***************************************************************************)
(* C2  A POST /webhook request is accepted only if its header equals the   *)
(* keyed hash of the exact raw body bytes received (so changing one byte   *)
(* of the raw body of an accepted request, white space included, gets the  *)
(* request rejected).                                                      *)
(***************************************************************************)
C2_AcceptedOnlyIfSignedOverRawBytes ==
    verified = "true" =>
        req.signature = Sha256Header(FACEBOOK_APP_SECRET, req.raw)

(***************************************************************************)
(* C3  Every POST /webhook request that passes signature verification is   *)
(* answered with status 200 and body 'OK', whatever the parsed body:       *)
(* the handler never rejects and never answers anything else.              *)
(***************************************************************************)
C3_VerifiedAlwaysAnswered200 ==
    verified = "true" =>
        /\ pc \notin {"rejected", "unanswered"}
        /\ pc = "answered" => res = Response(200, "OK")

C6_TextEventOneGenerationOneDelivery ==
    /\ \A k \in 1..Len(processed) :
         LET ev == processed[k]
             cs == CallsOf(k)
         IN  /\ TextEvent(ev) =>
                   /\ Len(cs) <= 2
                   /\ Handled(k) => Len(cs) = 2
                   /\ Len(cs) >= 1 =>
                        (cs[1].op = "generate" /\ cs[1].text = ev.text)
                   /\ Len(cs) = 2 =>
                        /\ cs[2].op = "send"
                        /\ cs[2].to = ev.sender
                        /\ cs[2].text = cs[1].result
             /\ (ev.hasMessage /\ ~Truthy(ev.text)) => cs = <<>>
    /\ ( /\ VerifiedPage
         /\ IterablePayload(req.body)
         /\ Len(Flatten(req.body.entry)) = 1
         /\ TextEvent(Flatten(req.body.entry)[1])
         /\ Len(req.body.entry) = 1
         /\ pc = "answered" )
       => /\ res = Response(200, "OK")
          /\ Len(calls) = 2
          /\ calls[1].op = "generate"
          /\ calls[2].op = "send"

\* The payload with one entry and the one event "Hi" was handled: one
\* generation call, the reply delivered to the sender, 200 'OK'.
C6_Witness ==
    /\ req.body = Body("page", <<Entry(<<Message("u1", PageId, "Hi", UNDEF)>>)>>)
    /\ pc = "answered"
    /\ res = Response(200, "OK")
    /\ Len(calls) = 2
    /\ calls[1].ok
    /\ calls[2].to = "u1"
    /\ calls[2].text = "Hello!"

(***************************************************************************)
(* C7  handlePostback delivers to the sender the canned string of each of  *)
(* the three known payloads and, for every other payload value (absent     *)
(* payloads and names of inherited properties included), exactly the       *)
(* fallback string 'I didn't understand that action.'.                     *)
(***************************************************************************)
C7_PostbackDeliversCannedOrFallback ==
    \A k \in 1..Len(calls) :
        LET ev == processed[calls[k].event]
        IN  (calls[k].op = "send" /\ ~ev.hasMessage /\ ev.hasPostback) =>
                /\ calls[k].to = ev.sender
                /\ calls[k].text =
                     IF ev.payload \in {"GET_STARTED", "MENU_INFO", "MENU_SUPPORT"}
                     THEN responses[ev.payload]
                     ELSE Fallback

(***************************************************************************)
(* C8  An event whose message carries a quick_reply payload takes the      *)
(* log-only path: handling it makes no generation call and no delivery     *)
(* call, also when the same message carries text.                          *)
(***************************************************************************)
C8_QuickReplyMakesNoCall ==
    \A k \in 1..Len(processed) :
        (processed[k].hasMessage /\ Truthy(processed[k].quick_reply))
            => CallsOf(k) = <<>>

(***************************************************************************)
(* C9  GET /webhook answers 200 with hub.challenge echoed verbatim if and  *)
(* only if hub.verify_token matches a configured verification secret; in   *)
(* every other case (no hub.verify_token and no configured token           *)
(* included) it answers 403.                                               *)
(***************************************************************************)
C9_ChallengeIffTokenMatchesConfigured ==
    (req.method = "GET" /\ pc = "answered") =>
        IF FACEBOOK_VERIFY_TOKEN # UNDEF /\ req.verify_token = FACEBOOK_VERIFY_TOKEN
        THEN res = Response(200, req.challenge)
        ELSE res.status = 403

(***************************************************************************)
(* C10  Every error that escapes a route handler, the asynchronous POST    *)
(* /webhook handler included, is caught by the generic error handler and   *)
(* answered with a 500 JSON response: no such error leaves the request     *)
(* unanswered or terminates the process.                                   *)
(***************************************************************************)
C10_EscapedErrorAnswered500 ==
    /\ processAlive
    /\ pc # "unanswered"
    /\ (error # UNDEF /\ pc # "rejected") => (pc = "answered" /\ res.status = 500)

====
